---------------------------- MODULE Spec2Model ----------------------------
(***************************************************************************)
(* Sector-rotation monthly returns: the Return Calculator (last_close,     *)
(* monthly_return, weighted_return), the Table Updater (write_data) and    *)
(* the runs of the three scripts (incremental updater, backfill with       *)
(* provider A, backfill with provider B).                                  *)
(*                                                                         *)
(* Numbers.  A Python float is a rational <<n, d>> with d > 0 in lowest    *)
(* terms; a missing value (None) is the empty tuple.  The Return           *)
(* Calculator computes in binary floating point: every *, /, + and - of    *)
(* monthly_return and weighted_return is rounded to the nearest float, a   *)
(* tie to the even one, as IEEE 754 does; the model keeps MantissaBits     *)
(* significant bits where a Python float keeps 53.  The Table Updater      *)
(* rounds to two decimals, which is coarser than a float by thirteen       *)
(* orders of magnitude: its v*100 and its mean are taken exactly.  A       *)
(* percentage cell rounded to two decimals is kept in hundredths of a      *)
(* percent (5.23 is 523).                                                  *)
(***************************************************************************)
EXTENDS Integers, Sequences, FiniteSets, TLC

VARIABLES
    script,       \* which entry point runs: "update", "backfill", "twelvedata"
    feed,         \* the price provider: <<ticker, year, month>> -> response
    log,          \* the warnings printed by last_close / last_close_td
    pc,           \* position of the run
    file,         \* the persisted table (EXCEL_FILE), or Absent
    wb,           \* the in-memory workbook, or Absent before load_workbook
    start,        \* <<start_year, start_month>>
    stop,         \* <<end_year, end_month>>
    cur,          \* <<current_year, current_month>>
    sector_ret,   \* the month's mapping sector -> return
    processed,    \* the year-month keys handed to write_data, in order
    saves,        \* number of wb.save(EXCEL_FILE) of the loaded workbook
    file0,        \* the persisted table when the run began
    call,         \* the last write_data / weighted_return call and its result
    wb0,          \* the workbook before the last write_data call
    api_key,      \* <<the --api-key argument, TWELVEDATA_API_KEY>>, each or None
    fetches,      \* number of calls of last_close / last_close_td so far
    status        \* <<exit status>> once the process has exited, else <<>>

vars == <<script, feed, log, pc, file, wb, start, stop, cur, sector_ret,
          processed, saves, file0, call, wb0, api_key, fetches, status>>

----------------------------------------------------------------------------
(* Bounds of the model *)

\* prices a provider returns are 0 .. MaxPrice
MaxPrice == 3
\* a run covers at most MaxRun months
MaxRun == 3
\* number of sample returns a write_data input draws its values from
NumRets == 5
\* number of year-month keys write_data is called with
NumKeys == 2
\* significant bits of a float of the Return Calculator
MantissaBits == 6

----------------------------------------------------------------------------
(* Program constants *)

None == <<>>
Absent == <<>>

Scripts == {"update", "backfill", "twelvedata"}

SectorNames ==
    << "Tech & Innovation", "Energy & Materials", "Precious Metals",
       "Crypto & Digital Assets", "Fixed Income", "Consumer",
       "Health & Biotech", "Real Assets", "Agriculture", "Cash / Liquidity" >>

NSectors == Len(SectorNames)
SectorIdx == 1..NSectors

HEADER == <<"Year-Month", "Notes">> \o SectorNames \o <<"Top #1", "Top #2", "Average Return %">>

\* the default start year of a backfill
DefaultYear == 2017
\* the earliest start year a backfill accepts
MinYear == 1990

----------------------------------------------------------------------------
(* Arithmetic *)

Abs(x) == IF x < 0 THEN -x ELSE x

RECURSIVE GCD(_, _)
GCD(a, b) == IF b = 0 THEN a ELSE GCD(b, a % b)

Rat(n, d) == LET g == GCD(Abs(n), d) IN <<n \div g, d \div g>>

RatAdd(x, y) ==
    LET g == GCD(x[2], y[2])
        l == (x[2] \div g) * y[2]
    IN  Rat(x[1] * (l \div x[2]) + y[1] * (l \div y[2]), l)

\* k * x for an integer k
RatScale(k, x) ==
    LET g == GCD(Abs(k), x[2]) IN Rat((k \div g) * x[1], x[2] \div g)

\* x / k for an integer k > 0
RatDiv(x, k) ==
    LET g == GCD(Abs(x[1]), k) IN Rat(x[1] \div g, x[2] * (k \div g))

RatLess(x, y) == x[1] * y[2] < y[1] * x[2]
RatLeq(x, y) == x[1] * y[2] <= y[1] * x[2]

\* round(x, 0) of Python: to the nearest integer, a tie to the even one
RoundHalfEven(x) ==
    LET f == x[1] \div x[2]
        r2 == 2 * (x[1] - f * x[2])
    IN  IF r2 < x[2] THEN f
        ELSE IF r2 > x[2] THEN f + 1
        ELSE IF f % 2 = 0 THEN f ELSE f + 1

\* round(v*100, 2), in hundredths of a percent
Pct(v) == RoundHalfEven(RatScale(10000, v))

RatNeg(x) == <<-x[1], x[2]>>
RatMul(x, y) == Rat(x[1] * y[1], x[2] * y[2])
\* x / y for y # 0
RatQuot(x, y) ==
    IF y[1] > 0 THEN Rat(x[1] * y[2], x[2] * y[1]) ELSE Rat(-(x[1] * y[2]), x[2] * (-y[1]))

\* The float nearest to n/d > 0: n/d is scaled by a power of two into
\* [2^(MantissaBits-1), 2^MantissaBits), rounded to an integer, and scaled
\* back; up/dn is the power of two that scales back.
MantissaEnd == 2 ^ MantissaBits
RECURSIVE FlPos(_, _, _, _)
FlPos(n, d, up, dn) ==
    IF 2 * n < MantissaEnd * d THEN FlPos(2 * n, d, up, 2 * dn)
    ELSE IF n >= MantissaEnd * d THEN FlPos(n, 2 * d, 2 * up, dn)
    ELSE Rat(RoundHalfEven(<<n, d>>) * up, dn)

\* the float nearest to x
Fl(x) ==
    IF x[1] = 0 THEN <<0, 1>>
    ELSE IF x[1] < 0 THEN RatNeg(FlPos(-x[1], x[2], 1, 1))
    ELSE FlPos(x[1], x[2], 1, 1)

\* x + y, x - y, x * y and x / y of two floats
FAdd(x, y) == Fl(RatAdd(x, y))
FSub(x, y) == Fl(RatAdd(x, RatNeg(y)))
FMul(x, y) == Fl(RatMul(x, y))
FDiv(x, y) == Fl(RatQuot(x, y))

----------------------------------------------------------------------------
(* The baskets *)

\* the float of a weight literal: 0.6 is W(6), 1.0 is W(10)
Weights == [t \in 1..10 |-> Fl(Rat(t, 10))]
W(t) == Weights[t]

\* SECTORS: the basket of each sector; W(t) is the float of the literal t/10
SECTORS(s) ==
    << << <<"XLK", W(5)>>, <<"SOXX", W(5)>> >>,
       << <<"XLE", W(5)>>, <<"XME", W(5)>> >>,
       << <<"GLD", W(6)>>, <<"GDX", W(4)>> >>,
       IF s = "twelvedata"
           THEN << <<"BTC/USD", W(6)>>, <<"ETH/USD", W(4)>> >>
           ELSE << <<"BTC-USD", W(6)>>, <<"ETH-USD", W(4)>> >>,
       << <<"AGG", W(7)>>, <<"IEF", W(3)>> >>,
       << <<"XLY", W(6)>>, <<"XLP", W(4)>> >>,
       << <<"XLV", W(6)>>, <<"XBI", W(4)>> >>,
       << <<"VNQ", W(6)>>, <<"XLU", W(4)>> >>,
       << <<"DBA", W(10)>> >>,
       << <<"BIL", W(10)>> >> >>


----------------------------------------------------------------------------
(* Dates *)

\* f"{y}-{m:02d}"
YM(y, m) == ToString(y) \o "-" \o (IF m < 10 THEN "0" ELSE "") \o ToString(m)

\* py, pm = (y, m-1) if m > 1 else (y-1, 12)
PrevMonth(y, m) == IF m > 1 THEN <<y, m - 1>> ELSE <<y - 1, 12>>

\* the month after <<y, m>>, as the backfill loop steps
NextMonth(c) == IF c[2] = 12 THEN <<c[1] + 1, 1>> ELSE <<c[1], c[2] + 1>>

\* the loop condition of backfill
InRange_EndExclusive(c, e) == (c[1] < e[1]) \/ (c[1] = e[1] /\ c[2] < e[2])
InRange(c, e) == (c[1] < e[1]) \/ (c[1] = e[1] /\ c[2] <= e[2])

----------------------------------------------------------------------------
(* Return Calculator *)

\* A provider response: an error raised by the fetch, no rows, or rows whose
\* last close is p.
RespError == <<"error">>
RespEmpty == <<"empty">>
RespClose(p) == <<"close", p>>
Responses == {RespError, RespEmpty} \cup {RespClose(p) : p \in 0..MaxPrice}

\* The outcome of a call: its value, what it printed, whether it raised.
Outcome(v, l, e) == [val |-> v, log |-> l, exc |-> e]

\* the except clause of last_close: update_sector_returns.py returns None
\* silently, the two backfill scripts print a warning first
OnFetchError_Raise(s, t, y, m) == Outcome(None, <<>>, TRUE)
OnFetchError(s, t, y, m) ==
    Outcome(None, IF s = "update" THEN <<>> ELSE << <<t, YM(y, m)>> >>, FALSE)

last_close(s, fd, t, y, m) ==
    LET r == fd[<<t, y, m>>] IN
    IF r = RespError THEN OnFetchError(s, t, y, m)
    ELSE IF r = RespEmpty THEN Outcome(None, <<>>, FALSE)
    ELSE Outcome(<<r[2], 1>>, <<>>, FALSE)

\* "not lc": None or 0.0
Falsy(x) == x = None \/ x[1] = 0

monthly_return(s, fd, t, y, m) ==
    LET lc == last_close(s, fd, t, y, m)
        p == PrevMonth(y, m)
    IN  IF lc.exc THEN lc
        ELSE LET prev == last_close(s, fd, t, p[1], p[2])
                 lg == lc.log \o prev.log
             IN  IF prev.exc THEN Outcome(None, lg, TRUE)
                 ELSE IF Falsy(lc.val) \/ Falsy(prev.val) THEN Outcome(None, lg, FALSE)
                 ELSE Outcome(FSub(FDiv(lc.val, prev.val), <<1, 1>>), lg, FALSE)

\* the accumulation of one ticker into total and wsum
Accumulate_AllWeights(acc, w, r) ==
    [total |-> IF r = None THEN acc.total ELSE FAdd(acc.total, FMul(w, r)),
     wsum |-> FAdd(acc.wsum, w)]
Accumulate(acc, w, r) ==
    IF r # None
        THEN [total |-> FAdd(acc.total, FMul(w, r)), wsum |-> FAdd(acc.wsum, w)]
        ELSE acc

\* return None if wsum==0 else total/wsum
Ratio_ZeroWhenEmpty(acc) ==
    IF acc.wsum = <<0, 1>> THEN <<0, 1>> ELSE FDiv(acc.total, acc.wsum)
Ratio(acc) == IF acc.wsum = <<0, 1>> THEN None ELSE FDiv(acc.total, acc.wsum)

\* the loop of weighted_return from ticker i on
RECURSIVE WeightedLoop(_, _, _, _, _, _, _, _)
WeightedLoop(s, fd, y, m, basket, i, acc, lg) ==
    IF i > Len(basket) THEN Outcome(Ratio(acc), lg, FALSE)
    ELSE LET r == monthly_return(s, fd, basket[i][1], y, m) IN
         IF r.exc THEN Outcome(None, lg \o r.log, TRUE)
         ELSE WeightedLoop(s, fd, y, m, basket, i + 1,
                           Accumulate(acc, basket[i][2], r.val), lg \o r.log)

weighted_return(s, fd, y, m, basket) ==
    WeightedLoop(s, fd, y, m, basket, 1, [total |-> <<0, 1>>, wsum |-> <<0, 1>>], <<>>)

----------------------------------------------------------------------------
(* Table Updater *)

\* A cell holds nothing, a string, or a number (hundredths of a percent).
Blank == <<"blank">>
Str(s) == <<"str", s>>
Num(n) == <<"num", n>>

NCols == Len(HEADER)

\* ws.append(HEADER)
HeaderRow == [c \in 1..NCols |-> Str(HEADER[c])]

\* ws.append([ym, ""])
NewRow(ym) ==
    [c \in 1..NCols |-> IF c = 1 THEN Str(ym) ELSE IF c = 2 THEN Str("") ELSE Blank]

\* str(ws.cell(r,1).value) of a key cell
CellStr(c) == CASE c[1] = "str" -> c[2] [] c[1] = "blank" -> "None"

\* rows = {str(ws.cell(r,1).value): r ...}; row = rows.get(ym) or ws.max_row+1
\* (a later row replaces an earlier one under the same key in the dict)
FindRow_AlwaysAppend(ws, ym) == Len(ws) + 1
FindRow(ws, ym) ==
    LET hits == {r \in 2..Len(ws) : CellStr(ws[r][1]) = ym}
    IN  IF hits = {} THEN Len(ws) + 1
        ELSE CHOOSE r \in hits : \A q \in hits : q <= r

\* value=None if v is None else round(v*100,2), written over the cell's old value
SectorCell_KeepOld(old, v) == IF v = None THEN old ELSE Num(Pct(v))
SectorCell(old, v) == IF v = None THEN Blank ELSE Num(Pct(v))

\* An entry of vals: <<k, n, d>> is k * 10^9 + n/d, where |n/d| < 10^9 always,
\* so that the order is that of the pairs (k, n/d).
NEG_1E9 == <<-1, 0, 1>>
NEG_1E10 == <<-10, 0, 1>>
ValLess(x, y) == x[1] < y[1] \/ (x[1] = y[1] /\ x[2] * y[3] < y[2] * x[3])

\* vals.append(v if v is not None else -1e9)
ValOf(v) == IF v = None THEN NEG_1E9 ELSE <<0, v[1], v[2]>>

\* max(range(len(vals)), key=lambda i: vals[i]): the first index of a maximum
ArgMax_Last(vals) ==
    CHOOSE i \in DOMAIN vals :
        /\ \A j \in DOMAIN vals : ~ValLess(vals[i], vals[j])
        /\ \A j \in DOMAIN vals : j > i => ValLess(vals[j], vals[i])
ArgMax(vals) ==
    CHOOSE i \in DOMAIN vals :
        /\ \A j \in DOMAIN vals : ~ValLess(vals[i], vals[j])
        /\ \A j \in DOMAIN vals : j < i => ValLess(vals[j], vals[i])

\* top1, then top2 with vals[top1] = -1e10
Top1(data) == ArgMax([i \in SectorIdx |-> ValOf(data[i])])
Top2(data) ==
    LET vals == [i \in SectorIdx |-> ValOf(data[i])]
    IN  ArgMax([vals EXCEPT ![Top1(data)] = NEG_1E10])

\* clean = [v for v in data.values() if v is not None]
Clean(data) == SelectSeq(data, LAMBDA v : v # None)

RECURSIVE SumSeq(_)
SumSeq(q) == IF q = <<>> THEN <<0, 1>> ELSE RatAdd(q[1], SumSeq(Tail(q)))

\* round(sum(clean)/len(clean)*100,2) if clean else None
Average_OverAllSectors(data) ==
    IF Clean(data) = <<>> THEN Blank
    ELSE Num(Pct(RatDiv(SumSeq(Clean(data)), Len(data))))
Average(data) ==
    IF Clean(data) = <<>> THEN Blank
    ELSE Num(Pct(RatDiv(SumSeq(Clean(data)), Len(Clean(data)))))

write_data_ResetsNotes(ws, ym, data) ==
    LET row == FindRow(ws, ym)
        ws1 == IF row = Len(ws) + 1 THEN Append(ws, NewRow(ym)) ELSE ws
        old == ws1[row]
        new == [c \in 1..NCols |->
                   IF c \in 3..(2 + NSectors) THEN SectorCell(old[c], data[c - 2])
                   ELSE IF c = 3 + NSectors THEN Str(SectorNames[Top1(data)])
                   ELSE IF c = 4 + NSectors THEN Str(SectorNames[Top2(data)])
                   ELSE IF c = 5 + NSectors THEN Average(data)
                   ELSE NewRow(ym)[c]]
    IN  [ws1 EXCEPT ![row] = new]
write_data(ws, ym, data) ==
    LET row == FindRow(ws, ym)
        ws1 == IF row = Len(ws) + 1 THEN Append(ws, NewRow(ym)) ELSE ws
        old == ws1[row]
        new == [c \in 1..NCols |->
                   IF c \in 3..(2 + NSectors) THEN SectorCell(old[c], data[c - 2])
                   ELSE IF c = 3 + NSectors THEN Str(SectorNames[Top1(data)])
                   ELSE IF c = 4 + NSectors THEN Str(SectorNames[Top2(data)])
                   ELSE IF c = 5 + NSectors THEN Average(data)
                   ELSE old[c]]
    IN  [ws1 EXCEPT ![row] = new]

----------------------------------------------------------------------------
(* The month's sector returns: sector_ret[s] = weighted_return(y, m, b) *)

RECURSIVE SectorLoop(_, _, _, _, _, _, _)
SectorLoop(s, fd, y, m, i, rets, lg) ==
    IF i > NSectors THEN Outcome(rets, lg, FALSE)
    ELSE LET r == weighted_return(s, fd, y, m, SECTORS(s)[i]) IN
         IF r.exc THEN Outcome(rets, lg \o r.log, TRUE)
         ELSE SectorLoop(s, fd, y, m, i + 1, Append(rets, r.val), lg \o r.log)

SectorReturns(s, fd, y, m) == SectorLoop(s, fd, y, m, 1, <<>>, <<>>)

----------------------------------------------------------------------------
(* Inputs *)

MonthIdx(c) == c[1] * 12 + c[2] - 1
FromIdx(i) == <<i \div 12, (i % 12) + 1>>
AddMonths(c, k) == FromIdx(MonthIdx(c) + k)

AllTickers(s) ==
    LET RECURSIVE Flat(_)
        Flat(i) == IF i > NSectors THEN <<>>
                   ELSE [j \in 1..Len(SECTORS(s)[i]) |-> SECTORS(s)[i][j][1]] \o Flat(i + 1)
    IN  Flat(1)

\* The providers a run is checked with: every ticker has a close each month,
\* except that one ticker (none when down = 0) always fails the same way.
MaxSeed == 1
SamplePrice(tn, mi, seed) == ((tn + seed) * ((mi % 5) + 1) + mi) % (MaxPrice + 1)
RunFeed(s, st, sp, down, kind, seed) ==
    LET tk == AllTickers(s)
        no == [t \in {tk[i] : i \in 1..Len(tk)} |-> CHOOSE i \in 1..Len(tk) : tk[i] = t]
    IN  [k \in {<<tk[i], FromIdx(j)[1], FromIdx(j)[2]>> :
                   i \in 1..Len(tk), j \in (MonthIdx(st) - 1)..MonthIdx(sp)} |->
            IF no[k[1]] = down THEN kind
            ELSE RespClose(SamplePrice(no[k[1]], MonthIdx(<<k[2], k[3]>>), seed))]
\* the failing ticker: none, the first of a basket of two, the only one of a basket
DownChoices(s) == {0, 1, Len(AllTickers(s)) - 1}
Feeds(s, st, sp) ==
    {RunFeed(s, st, sp, down, kind, seed) :
        down \in DownChoices(s), kind \in {RespError, RespEmpty}, seed \in 0..MaxSeed}

StartMonths == {<<DefaultYear, 1>>, <<DefaultYear, 11>>, <<DefaultYear, 12>>}
\* starts main rejects: month 0, month 13, a year before MinYear
BadStarts == {<<DefaultYear, 0>>, <<DefaultYear, 13>>, <<MinYear - 1, 1>>}
\* the --api-key argument and the environment variable: neither, an empty
\* argument, the variable alone, the argument alone, an empty argument beside
\* the variable
NoKeys == <<None, None>>
KeyChoices ==
    {NoKeys, << <<"">>, None>>, <<None, <<"k">> >>, << <<"k">>, None>>, << <<"">>, <<"k">> >>}
\* monthly_return calls last_close twice for every ticker of every basket
FetchesOfMonth(s) == 2 * Len(AllTickers(s))
RunLengths(s) == IF s = "update" THEN {1} ELSE (-1)..MaxRun

\* The returns write_data is checked with.
SampleReturns == << <<1, 1>>, <<3, 1>>, <<-2, 1>>, <<523, 10000>>, <<2, 3>>, <<-1, 3>> >>
Rets == {SampleReturns[i] : i \in 1..NumRets}
Cyclic(k) == [i \in SectorIdx |-> SampleReturns[((i - 1 + k) % NumRets) + 1]]
Masked(p, mask) == [i \in SectorIdx |-> IF i \in mask THEN p[i] ELSE None]
MaskPattern ==
    {Masked(p, mask) :
        p \in {Cyclic(k) : k \in 0..(NumRets - 1)} \cup {[i \in SectorIdx |-> v] : v \in Rets},
        mask \in SUBSET SectorIdx}
\* every sector at a common value b (or missing), but for sector k at v
BaseOverride ==
    {[i \in SectorIdx |-> IF i = k THEN v ELSE b] :
        b \in Rets \cup {None}, k \in SectorIdx, v \in Rets \cup {None}}
DataSet == MaskPattern \cup BaseOverride

\* The tables the checks start from: the header alone, then one more month
\* written each time, month k with sector k missing; the user has since put a
\* note in the Notes cell of every odd month.
Key(k) == YM(DefaultYear, k)
UserNote(t, r) == [t EXCEPT ![r][2] = Str("checked")]
RECURSIVE TableUpTo(_)
TableUpTo(n) ==
    IF n = 0 THEN <<HeaderRow>>
    ELSE LET t == write_data(TableUpTo(n - 1), Key(n), Masked(Cyclic(n), SectorIdx \ {n}))
         IN  IF n % 2 = 1 THEN UserNote(t, n + 1) ELSE t
InitTables == {TableUpTo(n) : n \in 0..NumKeys}

----------------------------------------------------------------------------
(* The run of a script *)

\* the rows under the header of a persisted table
DataRows(f) == IF f = Absent THEN <<>> ELSE Tail(f)

\* utcnow().year: the run ends with the month before today's
CurrentYear(sp) == NextMonth(sp)[1]

\* 1 <= start_month <= 12
ValidMonth(m) == 1 <= m /\ m <= 12

\* not (start_year < 1990 or start_year > datetime.utcnow().year)
ValidYear(y, now) == ~(y < MinYear \/ y > now)

\* "not api_key": None or the empty string
NotKey_NoneOnly(k) == k = None
NotKey(k) == k = None \/ k = <<"">>

\* init_client: the key of the flag, or of the environment when there is no flag
ClientKey(keys) == IF keys[1] = None THEN keys[2] ELSE keys[1]

Init ==
    /\ script \in Scripts
    /\ start \in IF script = "update" THEN StartMonths ELSE StartMonths \cup BadStarts
    /\ stop \in {AddMonths(start, k - 1) : k \in RunLengths(script)}
    /\ feed \in Feeds(script, start, stop)
    /\ log = <<>>
    /\ pc = IF script = "update" THEN "compute" ELSE "main"
    /\ api_key \in IF script = "twelvedata" THEN KeyChoices ELSE {NoKeys}
    /\ fetches = 0
    /\ status = <<>>
    /\ file \in {Absent} \cup InitTables
    /\ wb = Absent
    /\ cur = start
    /\ sector_ret = <<>>
    /\ processed = <<>>
    /\ saves = 0
    /\ file0 = file
    /\ call = None
    /\ wb0 = Absent

\* main of the two backfill scripts: the start month and year are validated
ValidateArgs ==
    /\ pc = "main"
    /\ IF ValidMonth(start[2]) /\ ValidYear(start[1], CurrentYear(stop))
          THEN /\ pc' = IF script = "twelvedata" THEN "client" ELSE "ensure"
               /\ status' = status
          ELSE /\ pc' = "rejected"
               /\ status' = <<1>>
    /\ UNCHANGED <<script, feed, log, file, wb, start, stop, cur, sector_ret,
                   processed, saves, file0, call, wb0, api_key, fetches>>

\* init_client(api_key) of backfill_twelvedata
InitClient ==
    /\ pc = "client"
    /\ IF NotKey(ClientKey(api_key))
          THEN /\ pc' = "rejected"
               /\ status' = <<1>>
          ELSE /\ pc' = "ensure"
               /\ status' = status
    /\ UNCHANGED <<script, feed, log, file, wb, start, stop, cur, sector_ret,
                   processed, saves, file0, call, wb0, api_key, fetches>>

\* update_sector_returns.main: sector_ret is computed before the file is opened
ComputeReturns ==
    /\ pc = "compute"
    /\ LET out == SectorReturns(script, feed, cur[1], cur[2]) IN
           /\ log' = log \o out.log
           /\ sector_ret' = IF out.exc THEN sector_ret ELSE out.val
           /\ pc' = IF out.exc THEN "aborted" ELSE "ensure"
           /\ status' = IF out.exc THEN <<1>> ELSE status
    /\ fetches' = fetches + FetchesOfMonth(script)
    /\ UNCHANGED <<script, feed, file, wb, start, stop, cur, processed, saves,
                   file0, call, wb0,
                   api_key>>

\* ensure_excel: a missing file is created with the header row alone
EnsureExcel ==
    /\ pc = "ensure"
    /\ file' = IF file = Absent THEN <<HeaderRow>> ELSE file
    /\ pc' = "load"
    /\ UNCHANGED <<script, feed, log, wb, start, stop, cur, sector_ret, processed,
                   saves, file0, call, wb0,
                   api_key, fetches, status>>

\* wb = load_workbook(EXCEL_FILE)
LoadWorkbook ==
    /\ pc = "load"
    /\ wb' = file
    /\ pc' = IF script = "update" THEN "write" ELSE "loop"
    /\ UNCHANGED <<script, feed, log, file, start, stop, cur, sector_ret, processed,
                   saves, file0, call, wb0,
                   api_key, fetches, status>>

\* one iteration of the while loop of backfill
LoopBody(savesEachRow) ==
    /\ pc = "loop"
    /\ InRange(cur, stop)
    /\ LET out == SectorReturns(script, feed, cur[1], cur[2]) IN
           /\ log' = log \o out.log
           /\ IF out.exc
                 THEN /\ pc' = "aborted"
                      /\ status' = <<1>>
                      /\ UNCHANGED <<file, wb, cur, sector_ret, processed, wb0>>
                 ELSE /\ pc' = "loop"
                      /\ status' = status
                      /\ sector_ret' = out.val
                      /\ wb0' = wb
                      /\ wb' = write_data(wb, YM(cur[1], cur[2]), out.val)
                      /\ file' = IF savesEachRow THEN wb' ELSE file
                      /\ processed' = Append(processed, YM(cur[1], cur[2]))
                      /\ cur' = NextMonth(cur)
    /\ fetches' = fetches + FetchesOfMonth(script)
    /\ UNCHANGED <<script, feed, start, stop, saves, file0, call,
                   api_key>>

ProcessMonth_SavesEachRow == LoopBody(TRUE)
ProcessMonth == LoopBody(FALSE)

\* update_sector_returns.main: write_data(wb, ym, sector_ret)
UpdateWrite ==
    /\ pc = "write"
    /\ wb0' = wb
    /\ wb' = write_data(wb, YM(cur[1], cur[2]), sector_ret)
    /\ processed' = Append(processed, YM(cur[1], cur[2]))
    /\ pc' = "save"
    /\ UNCHANGED <<script, feed, log, file, start, stop, cur, sector_ret, saves,
                   file0, call,
                   api_key, fetches, status>>

\* wb.save(EXCEL_FILE), after the loop (or after the one write of the updater)
Save ==
    /\ pc = "save" \/ (pc = "loop" /\ ~InRange(cur, stop))
    /\ file' = wb
    /\ saves' = saves + 1
    /\ pc' = "done"
    /\ status' = <<0>>
    /\ UNCHANGED <<script, feed, log, wb, start, stop, cur, sector_ret, processed,
                   file0, call, wb0,
                   api_key, fetches>>

\* an error nothing in the run handles (an unreadable or unwritable file, an
\* interrupt) reaches main, which exits with status 1
Abort ==
    /\ pc \in {"compute", "ensure", "load", "loop", "write", "save"}
    /\ pc' = "aborted"
    /\ status' = <<1>>
    /\ UNCHANGED <<script, feed, log, file, wb, start, stop, cur, sector_ret,
                   processed, saves, file0, call, wb0,
                   api_key, fetches>>

Next ==
    \/ ValidateArgs
    \/ InitClient
    \/ ComputeReturns
    \/ EnsureExcel
    \/ LoadWorkbook
    \/ ProcessMonth
    \/ UpdateWrite
    \/ Save
    \/ Abort

Spec == Init /\ [][Next]_vars

----------------------------------------------------------------------------
(* weighted_return on its own: one call, for every response of the provider *)
(* to the fetches of one basket                                             *)

ReturnMonths == {<<DefaultYear, 1>>, <<DefaultYear, 2>>}

BasketKeys(s, k, c) ==
    {<<SECTORS(s)[k][j][1], d[1], d[2]>> :
        j \in 1..Len(SECTORS(s)[k]), d \in {c, PrevMonth(c[1], c[2])}}

ReturnInit ==
    /\ script \in Scripts
    /\ call \in {[sector |-> k, out |-> None] : k \in SectorIdx}
    /\ cur \in ReturnMonths
    /\ feed \in [BasketKeys(script, call.sector, cur) -> Responses]
    /\ log = <<>>
    /\ pc = "call"
    /\ file = Absent
    /\ wb = Absent
    /\ start = cur
    /\ stop = cur
    /\ sector_ret = <<>>
    /\ processed = <<>>
    /\ saves = 0
    /\ file0 = Absent
    /\ wb0 = Absent
    /\ api_key = NoKeys
    /\ fetches = 0
    /\ status = <<>>

ReturnCall ==
    /\ pc = "call"
    /\ LET out == weighted_return(script, feed, cur[1], cur[2], SECTORS(script)[call.sector]) IN
           /\ call' = [call EXCEPT !.out = out]
           /\ log' = log \o out.log
           /\ pc' = IF out.exc THEN "raised" ELSE "returned"
    /\ UNCHANGED <<script, feed, file, wb, start, stop, cur, sector_ret, processed,
                   saves, file0, wb0,
                   api_key, fetches, status>>

ReturnSpec == ReturnInit /\ [][ReturnCall]_vars

----------------------------------------------------------------------------
(* write_data on its own: one call on a table earlier calls have written *)

WriteInit ==
    /\ script \in {"update"}
    /\ feed = <<>>
    /\ log = <<>>
    /\ pc = "write_data"
    /\ file = Absent
    /\ wb \in InitTables
    /\ start = <<DefaultYear, 1>>
    /\ stop = <<DefaultYear, 1>>
    /\ cur = <<DefaultYear, 1>>
    /\ sector_ret = <<>>
    /\ processed = <<>>
    /\ saves = 0
    /\ file0 = Absent
    /\ call = None
    /\ wb0 = wb
    /\ api_key = NoKeys
    /\ fetches = 0
    /\ status = <<>>

WriteCall ==
    /\ pc = "write_data"
    /\ \E k \in 1..NumKeys, data \in DataSet :
           /\ wb0' = wb
           /\ wb' = write_data(wb, Key(k), data)
           /\ call' = [ym |-> Key(k), data |-> data]
    /\ pc' = "written"
    /\ UNCHANGED <<script, feed, log, file, start, stop, cur, sector_ret, processed,
                   saves, file0,
                   api_key, fetches, status>>

WriteSpec == WriteInit /\ [][WriteCall]_vars

----------------------------------------------------------------------------
(* Properties of write_data, checked under WriteSpec *)

Written == pc = "written"

UniqueKeys(ws) ==
    \A p \in 2..Len(ws), q \in 2..Len(ws) : ws[p][1] = ws[q][1] => p = q
HasKey(ws, ym) == \E r \in 2..Len(ws) : ws[r][1] = Str(ym)

\* the row of the last call's key in the workbook
CallRow == wb[CHOOSE r \in 2..Len(wb) : wb[r][1] = Str(call.ym)]
OldCallRow == wb0[CHOOSE r \in 2..Len(wb0) : wb0[r][1] = Str(call.ym)]

PresentSectors == {i \in SectorIdx : call.data[i] # None}

\* c is an integer nearest to 10000 * x, the value x in hundredths of a percent
NearestHundredth(c, x) ==
    LET y == RatScale(10000, x) IN 2 * Abs(c * y[2] - y[1]) <= y[2]

\* C1: write_data keeps the year-month keys unique, and a second call with the
\* same key and the same returns leaves the table as the first call left it:
\* no row is added and no cell changes.
C1_UpsertIdempotent ==
    /\ UniqueKeys(wb0) => UniqueKeys(wb)
    /\ Written =>
          /\ HasKey(wb, call.ym)
          /\ Len(wb) = Len(wb0) + (IF HasKey(wb0, call.ym) THEN 0 ELSE 1)
          /\ write_data(wb, call.ym, call.data) = wb

\* C1, its case: the key was in the table, and the call changed its row in place
C1_Witness ==
    /\ Written
    /\ HasKey(wb0, call.ym)
    /\ Len(wb0) > 2
    /\ wb # wb0
    /\ Len(wb) = Len(wb0)

\* C2: unless every sector's return is missing, Top #1 and Top #2 name sectors
\* whose return is present.
C2_MissingNeverRanked ==
    (Written /\ PresentSectors # {}) =>
        /\ \E i \in PresentSectors : CallRow[3 + NSectors] = Str(SectorNames[i])
        /\ \E i \in PresentSectors : CallRow[4 + NSectors] = Str(SectorNames[i])

\* i is the first sector of S, in header order, whose return is the greatest of S
FirstBest(i, S) ==
    /\ i \in S
    /\ \A j \in S : RatLeq(call.data[j], call.data[i])
    /\ \A j \in S : j < i => RatLess(call.data[j], call.data[i])

\* C3: with at least two present returns, Top #1 is the sector of the greatest
\* return and Top #2 the sector of the greatest return among the others, the
\* first in header order winning a tie.
C3_TopTwo ==
    (Written /\ Cardinality(PresentSectors) >= 2) =>
        \E i \in PresentSectors, j \in PresentSectors :
            /\ FirstBest(i, PresentSectors)
            /\ FirstBest(j, PresentSectors \ {i})
            /\ CallRow[3 + NSectors] = Str(SectorNames[i])
            /\ CallRow[4 + NSectors] = Str(SectorNames[j])

\* C3, its case: {A: 1.0, B: 3.0, C: -2.0, the others missing} ranks B, then A
C3_Witness ==
    /\ Written
    /\ call.data = [i \in SectorIdx |->
                       IF i = 1 THEN <<1, 1>> ELSE IF i = 2 THEN <<3, 1>>
                       ELSE IF i = 3 THEN <<-2, 1>> ELSE None]
    /\ CallRow[3 + NSectors] = Str(SectorNames[2])
    /\ CallRow[4 + NSectors] = Str(SectorNames[1])

\* the sum of the returns of the sectors of S
RECURSIVE SumOver(_)
SumOver(S) ==
    IF S = {} THEN <<0, 1>>
    ELSE LET i == CHOOSE x \in S : TRUE IN RatAdd(call.data[i], SumOver(S \ {i}))

----------------------------------------------------------------------------
(* Properties of weighted_return, checked under ReturnSpec *)

Returned == pc = "returned"

CallBasket == SECTORS(script)[call.sector]

\* the provider gave ticker t a usable close in month c
ClosePresent(t, c) ==
    /\ feed[<<t, c[1], c[2]>>][1] = "close"
    /\ feed[<<t, c[1], c[2]>>][2] > 0
ClosePrice(t, c) == feed[<<t, c[1], c[2]>>][2]

\* the constituents with a present monthly return, and that return
PresentTickers ==
    {j \in 1..Len(CallBasket) :
        /\ ClosePresent(CallBasket[j][1], cur)
        /\ ClosePresent(CallBasket[j][1], PrevMonth(cur[1], cur[2]))}
TickerReturn(j) ==
    LET t == CallBasket[j][1]
    IN  FSub(FDiv(<<ClosePrice(t, cur), 1>>,
                  <<ClosePrice(t, PrevMonth(cur[1], cur[2])), 1>>), <<1, 1>>)

\* the float sums of w*r and of w over the present constituents among the
\* first j of the basket, added in the basket's order
RECURSIVE WeightedSumOver(_)
WeightedSumOver(j) ==
    IF j = 0 THEN <<0, 1>>
    ELSE IF j \in PresentTickers
        THEN FAdd(WeightedSumOver(j - 1), FMul(CallBasket[j][2], TickerReturn(j)))
        ELSE WeightedSumOver(j - 1)

RECURSIVE WeightOver(_)
WeightOver(j) ==
    IF j = 0 THEN <<0, 1>>
    ELSE IF j \in PresentTickers THEN FAdd(WeightOver(j - 1), CallBasket[j][2])
    ELSE WeightOver(j - 1)

\* the present returns; the least and the greatest of a family r of returns,
\* and the greatest magnitude among them
PresentReturns == [j \in PresentTickers |-> TickerReturn(j)]
MinReturn(r) == r[CHOOSE j \in DOMAIN r : \A k \in DOMAIN r : RatLeq(r[j], r[k])]
MaxReturn(r) == r[CHOOSE j \in DOMAIN r : \A k \in DOMAIN r : RatLeq(r[k], r[j])]
RatAbs(x) == <<Abs(x[1]), x[2]>>
MaxMagnitude(r) ==
    RatAbs(r[CHOOSE j \in DOMAIN r : \A k \in DOMAIN r : RatLeq(RatAbs(r[k]), RatAbs(r[j]))])

\* x <= y + (5 / 2^MantissaBits) * a: x exceeds y by no more than the rounding
\* errors of the five float operations of a weighted mean of magnitude a
LeqUpToRounding(x, y, a) ==
    RatLeq(RatScale(MantissaEnd, RatAdd(x, RatNeg(y))), RatScale(5, a))

\* the provider with every failing fetch answered by no rows instead
ErrorsAsEmpty(fd) == [k \in DOMAIN fd |-> IF fd[k] = RespError THEN RespEmpty ELSE fd[k]]

\* C6: a fetch error is caught, logged with its ticker and month, and counts as
\* a missing close of that ticker alone: the call does not raise, and returns
\* what it returns when the failing fetches find no data.
C6_FetchErrorLoggedAsMissing ==
    pc # "call" =>
        /\ Returned
        /\ call.out.val =
               weighted_return(script, ErrorsAsEmpty(feed), cur[1], cur[2], CallBasket).val
        /\ \A k \in DOMAIN feed :
               feed[k] = RespError =>
                   \E n \in 1..Len(log) : log[n] = <<k[1], YM(k[2], k[3])>>

\* C6 without the logging: a fetch error never raises and counts as no data
C6_FetchErrorAsMissing ==
    pc # "call" =>
        /\ Returned
        /\ call.out.val =
               weighted_return(script, ErrorsAsEmpty(feed), cur[1], cur[2], CallBasket).val

\* C6 for the two backfill scripts: there every failing fetch is logged too
C6_BackfillLogs ==
    (pc # "call" /\ script # "update") =>
        \A k \in DOMAIN feed :
            feed[k] = RespError =>
                \E n \in 1..Len(log) : log[n] = <<k[1], YM(k[2], k[3])>>

\* C7: weighted_return is missing, not zero, when every constituent's return is
\* missing; otherwise it is present, and is the weighted sum over the present
\* constituents alone divided by the sum of their weights alone.
C7_MissingIffAllMissing ==
    pc # "call" =>
        /\ Returned
        /\ IF PresentTickers = {} THEN call.out.val = None
           ELSE /\ call.out.val # None
                /\ call.out.val = FDiv(WeightedSumOver(Len(CallBasket)),
                                       WeightOver(Len(CallBasket)))

\* C7, its case: a basket of two, one fetch failing, no constituent present
C7_Witness ==
    /\ Returned
    /\ Len(CallBasket) = 2
    /\ PresentTickers = {}
    /\ \E k \in DOMAIN feed : feed[k] = RespError
    /\ \E k \in DOMAIN feed : feed[k][1] = "close" /\ feed[k][2] > 0
    /\ call.out.val = None

\* C8 as claimed: a present weighted_return lies between the least and the
\* greatest of the present constituents' returns.
C8_WithinMinMax ==
    (Returned /\ PresentTickers # {}) =>
        LET r == PresentReturns IN
        /\ call.out.val # None
        /\ RatLeq(MinReturn(r), call.out.val)
        /\ RatLeq(call.out.val, MaxReturn(r))

\* C8: a present weighted_return lies between the least and the greatest of
\* the present constituents' returns up to the rounding of the float
\* operations that compute it: it is below the least or above the greatest by
\* no more than 5 / 2^MantissaBits of the greatest magnitude among them.
C8_WithinMinMaxUpToRounding ==
    (Returned /\ PresentTickers # {}) =>
        LET r == PresentReturns IN
        /\ call.out.val # None
        /\ LeqUpToRounding(MinReturn(r), call.out.val, MaxMagnitude(r))
        /\ LeqUpToRounding(call.out.val, MaxReturn(r), MaxMagnitude(r))

\* C8, its case: two present constituents, the result strictly between them
C8_Witness ==
    /\ Returned
    /\ PresentTickers = {1, 2}
    /\ RatLess(TickerReturn(1), call.out.val)
    /\ RatLess(call.out.val, TickerReturn(2))

----------------------------------------------------------------------------
(* Properties of a run, checked under Spec *)

\* the year-month keys from start to stop inclusive, in calendar order
ExpectedMonths ==
    LET n == MonthIdx(stop) - MonthIdx(start) + 1
    IN  IF n <= 0 THEN <<>>
        ELSE [i \in 1..n |->
                 LET c == FromIdx(MonthIdx(start) + i - 1) IN YM(c[1], c[2])]

IsPrefix(p, q) == Len(p) <= Len(q) /\ \A i \in 1..Len(p) : p[i] = q[i]

MonthsLeft ==
    IF MonthIdx(cur) <= MonthIdx(stop) THEN MonthIdx(stop) - MonthIdx(cur) + 1 ELSE 0

\* the number of steps a run can still take, at most
Rank ==
    CASE pc = "compute" -> 8 + MonthsLeft
      [] pc = "main" -> 7 + MonthsLeft
      [] pc = "client" -> 6 + MonthsLeft
      [] pc = "ensure" -> 5 + MonthsLeft
      [] pc = "load" -> 4 + MonthsLeft
      [] pc = "write" -> 2
      [] pc = "loop" -> 1 + MonthsLeft
      [] pc = "save" -> 1
      [] OTHER -> 0

\* C5: a run processes the months from start to stop inclusive, each once and
\* in calendar order, none when start is after stop, and then ends: each step
\* of the run lowers the number of steps that can still follow.
C5_MonthsInOrder ==
    /\ [](/\ IsPrefix(processed, ExpectedMonths)
          /\ pc = "done" => processed = ExpectedMonths
          /\ (pc = "done" /\ start = <<2017, 1>> /\ stop = <<2017, 3>>)
                 => processed = <<"2017-01", "2017-02", "2017-03">>
          /\ (pc = "done" /\ MonthIdx(start) > MonthIdx(stop)) => processed = <<>>
          /\ Rank >= 0)
    /\ [][Rank' < Rank]_vars

\* C5, its case: a backfill that rolls December over to January has ended
C5_Witness ==
    /\ pc = "done"
    /\ script # "update"
    /\ start = <<2017, 11>>
    /\ processed = <<"2017-11", "2017-12", "2018-01">>

----------------------------------------------------------------------------
(* Properties of main, checked under Spec *)

\* the command line of a backfill is one main has to reject
BadMonth == script # "update" /\ (start[2] < 1 \/ start[2] > 12)
BadYear == script # "update" /\ (start[1] < MinYear \/ start[1] > CurrentYear(stop))
KeyGiven(k) == k # None /\ k # <<"">>
BadKey == script = "twelvedata" /\ ~KeyGiven(api_key[1]) /\ ~KeyGiven(api_key[2])
InvalidInput == BadMonth \/ BadYear \/ BadKey

\* no price was fetched and the table file was not created, loaded or saved
NoWork ==
    /\ fetches = 0
    /\ log = <<>>
    /\ file = file0
    /\ wb = Absent
    /\ saves = 0
    /\ processed = <<>>

\* C11: a backfill whose start month is outside 1..12, whose start year is
\* below 1990 or above the current year, or (provider B) that has no API key
\* from the flag or the environment, does no work: it is still validating or
\* has exited with status 1, no price fetched and the table file neither
\* created, loaded nor saved; and a step of validation that can still go on
\* is followed by another or by the exit.
C11_InvalidInputRejected ==
    /\ [](InvalidInput =>
            /\ pc \in {"main", "client", "rejected"}
            /\ NoWork
            /\ pc = "rejected" <=> status = <<1>>
            /\ pc # "rejected" => status = <<>>
            /\ pc = "client" => ~(BadMonth \/ BadYear))
    /\ [][InvalidInput => pc' \in {"client", "rejected"}]_vars

\* C11, its case: provider B, a valid start, no key from flag or environment,
\* over a table file that exists: the run has exited with status 1
C11_Witness ==
    /\ script = "twelvedata"
    /\ pc = "rejected"
    /\ status = <<1>>
    /\ ~BadMonth /\ ~BadYear /\ BadKey
    /\ file0 # Absent
    /\ MonthIdx(start) <= MonthIdx(stop)

----------------------------------------------------------------------------
(* The frame of write_data, checked under WriteSpec *)

\* the index of the row of the last call's key in the workbook
CallRowIdx == CHOOSE r \in 2..Len(wb) : wb[r][1] = Str(call.ym)

\* C12: write_data for key K changes the row of K alone: the header row and
\* every other row are as they were; a row of K that was there keeps its place,
\* its key cell and its Notes cell; a row of K that was not there is appended
\* after the last row with K as its key and an empty string as its Notes.
C12_OnlyRowOfKey ==
    Written =>
        /\ HasKey(wb, call.ym)
        /\ \A q \in 1..Len(wb0) : q # CallRowIdx => (q <= Len(wb) /\ wb[q] = wb0[q])
        /\ \A q \in 1..Len(wb) : q # CallRowIdx => q <= Len(wb0)
        /\ IF HasKey(wb0, call.ym)
              THEN /\ Len(wb) = Len(wb0)
                   /\ wb[CallRowIdx][1] = wb0[CallRowIdx][1]
                   /\ wb[CallRowIdx][2] = wb0[CallRowIdx][2]
              ELSE /\ CallRowIdx = Len(wb0) + 1
                   /\ wb[CallRowIdx][1] = Str(call.ym)
                   /\ wb[CallRowIdx][2] = Str("")

\* C12, its case: the row of K is there with a note of the user's, between the
\* header and another month's row, and the call changes a cell of it
C12_Witness ==
    /\ Written
    /\ HasKey(wb0, call.ym)
    /\ Len(wb0) >= 3
    /\ CallRowIdx < Len(wb0)
    /\ wb0[CallRowIdx][2] = Str("checked")
    /\ wb[CallRowIdx] # wb0[CallRowIdx]

============================================================================
